---- MODULE Spec2Model ----
(***************************************************************************)
(* Roadmap Dashboard (src/app.py): one top-to-bottom Streamlit script, run *)
(* again on every user interaction.  A run is modelled as a sequence of    *)
(* stage actions, one per block of the script; the widgets' return values  *)
(* (uploaded file, filter selections, timeline option) are the inputs.     *)
(*                                                                         *)
(* pc is the block the run is at, stages the blocks it has executed, out  *)
(* the page drawn so far, rerun whether an earlier run came before it.     *)
(*                                                                         *)
(* Text is a sequence of one-character strings, so that str.lower(),       *)
(* str.endswith(), sorting and date parsing are computed, not assumed.     *)
(* An empty cell of the uploaded sheet is the empty sequence <<>> (pandas  *)
(* reads it as NaN); a numeric cell holding n is <<n>>.                    *)
(***************************************************************************)
EXTENDS Integers, Sequences, FiniteSets

VARIABLES pc, uploaded, df, track_f, cat_f, mod_f, qtr_f, status_f, fdf, opt,
          out, stages, rerun

vars == <<pc, uploaded, df, track_f, cat_f, mod_f, qtr_f, status_f, fdf, opt,
          out, stages, rerun>>

(* ------------------------------ bounds --------------------------------- *)

\* Largest number of data rows in an uploaded sheet.
MaxRows == 2

\* Largest number of values the user ticks over the five filter selectors.
MaxSelected == 2

\* Largest number of required columns an uploaded sheet leaves out.
MaxMissing == 2

(* ------------------------------- text ---------------------------------- *)

\* The characters used, in code-point order.
Alphabet ==
  <<"-", ".", "0", "1", "2", "3", "4", "5", "6", "7", "8", "9",
    "A", "B", "C", "D", "E", "F", "G", "H", "I", "J", "K", "L", "M",
    "N", "O", "P", "Q", "R", "S", "T", "U", "V", "W", "X", "Y", "Z",
    "a", "b", "c", "d", "e", "f", "g", "h", "i", "j", "k", "l", "m",
    "n", "o", "p", "q", "r", "s", "t", "u", "v", "w", "x", "y", "z">>

\* The place of each character in Alphabet.
OrdTable ==
  [c \in {Alphabet[i] : i \in 1..Len(Alphabet)} |->
     CHOOSE i \in 1..Len(Alphabet) : Alphabet[i] = c]

\* ord(c), up to the offset of the first character.
Ord(c) == OrdTable[c]

IsUpper(c) == Ord(c) >= Ord("A") /\ Ord(c) <= Ord("Z")

IsDigit(c) == Ord(c) >= Ord("0") /\ Ord(c) <= Ord("9")

\* str.lower() on one character.
LowerChar(c) == IF IsUpper(c) THEN Alphabet[Ord(c) - Ord("A") + Ord("a")] ELSE c

\* str.lower()
Lower(s) == [i \in 1..Len(s) |-> LowerChar(s[i])]

\* str.endswith(suffix)
EndsWith(s, suffix) ==
  /\ Len(s) >= Len(suffix)
  /\ SubSeq(s, Len(s) - Len(suffix) + 1, Len(s)) = suffix

\* Python's order on str: lexicographic by code point.
StrLess(a, b) ==
  LET n == IF Len(a) < Len(b) THEN Len(a) ELSE Len(b)
      diff == {i \in 1..n : a[i] # b[i]}
  IN  IF diff = {} THEN Len(a) < Len(b)
      ELSE LET k == CHOOSE i \in diff : \A j \in diff : i <= j
           IN  Ord(a[k]) < Ord(b[k])

DigitChar(n) == Alphabet[Ord("0") + n]

DigitVal(c) == Ord(c) - Ord("0")

\* The text YYYY-MM-DD of a calendar date, the format the sidebar asks for.
IsoDate(y, m, d) ==
  <<DigitChar(y \div 1000), DigitChar((y \div 100) % 10),
    DigitChar((y \div 10) % 10), DigitChar(y % 10), "-",
    DigitChar(m \div 10), DigitChar(m % 10), "-",
    DigitChar(d \div 10), DigitChar(d % 10)>>

(* ------------------------------- cells --------------------------------- *)

\* An empty cell: NaN after reading.
NaN == <<>>

isna(v) == v = NaN

notna(v) == v # NaN

\* Not-a-Time, the value errors="coerce" gives to what is no date.
NaT == 0

IsIsoDate(s) ==
  /\ Len(s) = 10
  /\ s[5] = "-"
  /\ s[8] = "-"
  /\ \A i \in {1, 2, 3, 4, 6, 7, 9, 10} : IsDigit(s[i])
  /\ LET m == 10 * DigitVal(s[6]) + DigitVal(s[7])
         d == 10 * DigitVal(s[9]) + DigitVal(s[10])
     IN  m >= 1 /\ m <= 12 /\ d >= 1 /\ d <= 31

\* pd.to_datetime(cell, errors="coerce"): a timestamp, kept as the number
\* yyyymmdd (which orders as the dates do), or NaT.
to_datetime(s) ==
  IF IsIsoDate(s)
  THEN 10000 * (1000 * DigitVal(s[1]) + 100 * DigitVal(s[2])
                + 10 * DigitVal(s[3]) + DigitVal(s[4]))
       + 100 * (10 * DigitVal(s[6]) + DigitVal(s[7]))
       + 10 * DigitVal(s[9]) + DigitVal(s[10])
  ELSE NaT

\* a <= b on timestamps: False as soon as one side is NaT.
DateLE(a, b) == a # NaT /\ b # NaT /\ a <= b

(* --------------------------- program constants ------------------------- *)

REQUIRED_COLUMNS ==
  <<"Initiative", "Category", "Track", "Quarter", "PlannedStart", "PlannedEnd",
    "ActualStart", "ActualEnd", "Status", "Revenue", "Effort",
    "BreakEvenMonths", "Module">>

Range(s) == {s[i] : i \in 1..Len(s)}

DotCsv == <<".", "c", "s", "v">>

completed_text == <<"c", "o", "m", "p", "l", "e", "t", "e", "d">>

(* ------------------------------- inputs -------------------------------- *)

AI == <<"A", "I">>

DDE == <<"D", "D", "E">>

Feature == <<"F", "e", "a", "t", "u", "r", "e">>

Core == <<"C", "o", "r", "e">>

API == <<"A", "P", "I">>

Q3 == <<"2", "0", "2", "5", "-", "Q", "3">>

Q4 == <<"2", "0", "2", "5", "-", "Q", "4">>

Completed == <<"C", "o", "m", "p", "l", "e", "t", "e", "d">>

COMPLETED == <<"C", "O", "M", "P", "L", "E", "T", "E", "D">>

Planned == <<"P", "l", "a", "n", "n", "e", "d">>

Delayed == <<"D", "e", "l", "a", "y", "e", "d">>

\* A cell of a date column that holds no date.
TBD == <<"T", "B", "D">>

\* A row delivered on time: planned 1 Jul - 30 Sep, done 15 Jul - 15 Sep.
DefaultRow ==
  [Initiative |-> <<"A">>, Category |-> Feature, Track |-> AI, Quarter |-> Q3,
   PlannedStart |-> IsoDate(2025, 7, 1), PlannedEnd |-> IsoDate(2025, 9, 30),
   ActualStart |-> IsoDate(2025, 7, 15), ActualEnd |-> IsoDate(2025, 9, 15),
   Status |-> Completed, Revenue |-> <<5>>, Effort |-> <<3>>,
   BreakEvenMonths |-> <<4>>, Module |-> Core]

\* The rows of the uploaded sheets, in families that each vary a few columns
\* of DefaultRow; a sheet takes its rows from one family.
RowsTrackStatus ==
  {[DefaultRow EXCEPT !.Track = t, !.Status = s] :
     t \in {AI, DDE, NaN}, s \in {Completed, Planned}}

RowsCategoryQuarter ==
  {[DefaultRow EXCEPT !.Category = c, !.Quarter = q] :
     c \in {Feature, NaN}, q \in {Q3, Q4, NaN}}

RowsModuleInitiative ==
  {[DefaultRow EXCEPT !.Module = m, !.Initiative = i] :
     m \in {Core, API, NaN}, i \in {<<"A">>, <<"B">>}}

RowsStatusActualEnd ==
  {[DefaultRow EXCEPT !.Status = s, !.ActualEnd = a] :
     s \in {COMPLETED, Delayed, NaN},
     a \in {IsoDate(2025, 9, 30), IsoDate(2025, 10, 1)}}

RowsEnds ==
  {[DefaultRow EXCEPT !.PlannedEnd = p, !.ActualEnd = a] :
     p \in {IsoDate(2025, 12, 31), TBD, NaN}, a \in {IsoDate(2025, 9, 15), NaN}}

RowsStarts ==
  {[DefaultRow EXCEPT !.PlannedStart = p, !.ActualStart = a] :
     p \in {IsoDate(2025, 7, 1), NaN}, a \in {IsoDate(2025, 7, 15), TBD}}

RowsNumbers ==
  {[DefaultRow EXCEPT !.Revenue = n[1], !.Effort = n[2], !.BreakEvenMonths = n[3]] :
     n \in {<<<<5>>, <<3>>, <<4>>>>, <<NaN, <<3>>, <<4>>>>, <<<<5>>, NaN, <<4>>>>,
            <<<<7>>, <<2>>, NaN>>, <<NaN, NaN, NaN>>}}

Families ==
  {RowsTrackStatus, RowsCategoryQuarter, RowsModuleInitiative,
   RowsStatusActualEnd, RowsEnds, RowsStarts, RowsNumbers}

\* The sheets of at most MaxRows rows.
Tables == UNION {UNION {[1..n -> F] : n \in 0..MaxRows} : F \in Families}

File(name, content, columns, rows) ==
  [name |-> name, content |-> content, columns |-> columns, rows |-> rows]

\* st.file_uploader returns None until a file is uploaded.
None == File(<<>>, "none", {}, <<>>)

Names ==
  {<<"r", ".", "c", "s", "v">>, <<"R", ".", "C", "S", "V">>,
   <<"r", ".", "x", "l", "s", "x">>}

\* Files whose bytes are a CSV text, an XLSX workbook, or neither, under each name.
ReadFiles ==
  {File(n, c, Range(REQUIRED_COLUMNS), t) :
     n \in Names, c \in {"csv", "xlsx", "corrupt"}, t \in {<<>>, <<DefaultRow>>}}

ExtraColumns == {"Notes", "initiative"}

\* Readable sheets that leave out some required columns.
SchemaFiles ==
  {File(<<"r", ".", "c", "s", "v">>, "csv", (Range(REQUIRED_COLUMNS) \ M) \cup E, <<>>) :
     M \in {X \in SUBSET Range(REQUIRED_COLUMNS) : X # {} /\ Cardinality(X) <= MaxMissing},
     E \in SUBSET ExtraColumns}

DataFiles ==
  {File(<<"r", ".", "c", "s", "v">>, "csv", Range(REQUIRED_COLUMNS), t) : t \in Tables}

Files == ReadFiles \cup SchemaFiles \cup DataFiles

(* ------------------------------- output -------------------------------- *)

\* One element drawn on the page.
Element(type, text, data) == [type |-> type, text |-> text, data |-> data]

NoOutput ==
  [messages |-> <<>>, filters |-> <<>>, kpis |-> <<>>, table |-> <<>>,
   c1 |-> <<>>, c2 |-> <<>>, c3 |-> <<>>, c4 |-> <<>>, timeline |-> <<>>]

NoFrame == [columns |-> {}, rows |-> <<>>]

(* ------------------------------- the run ------------------------------- *)

Init ==
  /\ pc = "upload"
  /\ uploaded = None
  /\ df = NoFrame
  /\ track_f = {} /\ cat_f = {} /\ mod_f = {} /\ qtr_f = {} /\ status_f = {}
  /\ fdf = <<>>
  /\ opt = "Planned"
  /\ out = NoOutput
  /\ stages = <<>>
  /\ rerun = FALSE

\* st.stop(), or an exception that ends the script: nothing below runs.
Stop(element) ==
  /\ out' = [out EXCEPT !.messages = Append(@, element)]
  /\ pc' = "stopped"

\* uploaded = st.file_uploader(...); if not uploaded: st.info(...); st.stop()
FileUploader ==
  /\ pc = "upload"
  /\ \E f \in Files \cup {None} :
       /\ uploaded' = f
       /\ IF f = None
          THEN Stop(Element("info", "Upload a CSV/XLSX to continue", <<>>))
          ELSE pc' = "read" /\ out' = out
  /\ UNCHANGED <<df, track_f, cat_f, mod_f, qtr_f, status_f, fdf, opt, stages, rerun>>

\* Reader with the name's case left as it is.
ReaderCaseSensitive(name) == IF EndsWith(name, DotCsv) THEN "csv" ELSE "xlsx"

\* The reader the file's name selects.
Reader(name) == IF EndsWith(Lower(name), DotCsv) THEN "csv" ELSE "xlsx"

\* pd.read_csv / pd.read_excel return a frame when the bytes are of their format,
\* and raise otherwise.
Parses(f) == f.content = Reader(f.name)

\* ReadInput going on to the date parsing, past the validation.
ReadInputThenParse ==
  /\ pc = "read"
  /\ stages' = Append(stages, "read")
  /\ IF Parses(uploaded)
     THEN /\ df' = [columns |-> uploaded.columns, rows |-> uploaded.rows]
          /\ pc' = "parse"
          /\ out' = out
     ELSE /\ Stop(Element("error", "Could not read file", <<>>))
          /\ df' = df
  /\ UNCHANGED <<uploaded, track_f, cat_f, mod_f, qtr_f, status_f, fdf, opt, rerun>>

ReadInput ==
  /\ pc = "read"
  /\ stages' = Append(stages, "read")
  /\ IF Parses(uploaded)
     THEN /\ df' = [columns |-> uploaded.columns, rows |-> uploaded.rows]
          /\ pc' = "validate"
          /\ out' = out
     ELSE /\ Stop(Element("error", "Could not read file", <<>>))
          /\ df' = df
  /\ UNCHANGED <<uploaded, track_f, cat_f, mod_f, qtr_f, status_f, fdf, opt, rerun>>

\* Missing accepting a sheet that has some of the required columns.
MissingUnlessAnyPresent(columns) ==
  IF Range(REQUIRED_COLUMNS) \cap columns # {} THEN <<>> ELSE REQUIRED_COLUMNS

\* missing = [c for c in REQUIRED_COLUMNS if c not in df.columns]
Missing(columns) == SelectSeq(REQUIRED_COLUMNS, LAMBDA c : c \notin columns)

ValidateColumns ==
  /\ pc = "validate"
  /\ stages' = Append(stages, "validate")
  /\ IF Missing(df.columns) # <<>>
     THEN Stop(Element("error", "Your file is missing required columns",
                       Missing(df.columns)))
     ELSE pc' = "parse" /\ out' = out
  /\ UNCHANGED <<uploaded, df, track_f, cat_f, mod_f, qtr_f, status_f, fdf, opt, rerun>>

\* for c in [...four date columns...]: df[c] = pd.to_datetime(df[c], errors="coerce")
ParsedRow(r) ==
  [r EXCEPT !.PlannedStart = to_datetime(@), !.PlannedEnd = to_datetime(@),
            !.ActualStart = to_datetime(@), !.ActualEnd = to_datetime(@)]

ParseDates ==
  /\ pc = "parse"
  /\ stages' = Append(stages, "parse")
  /\ df' = [df EXCEPT !.rows = [i \in 1..Len(@) |-> ParsedRow(@[i])]]
  /\ pc' = "derive"
  /\ UNCHANGED <<uploaded, track_f, cat_f, mod_f, qtr_f, status_f, fdf, opt, out, rerun>>

\* A column read from a sheet holds text only if one of its cells does: a
\* column of nothing but empty cells is read as float64, and the .str accessor
\* raises AttributeError on it.  (A sheet with no rows has object columns.)
StrAccessorRaises(rows, column) ==
  /\ Len(rows) > 0
  /\ \A i \in 1..Len(rows) : isna(rows[i][column])

\* df["Status"].str.lower().eq("completed"): False on NaN.
IsCompleted(status) == Lower(status) = completed_text

\* IsOnTime without the Completed operand.
IsOnTimeWhateverStatus(r) == DateLE(r.ActualEnd, r.PlannedEnd)

\* df["Completed"] & (df["ActualEnd"] <= df["PlannedEnd"])
IsOnTime(r) == IsCompleted(r.Status) /\ DateLE(r.ActualEnd, r.PlannedEnd)

DerivedRow(r) ==
  [Initiative |-> r.Initiative, Category |-> r.Category, Track |-> r.Track,
   Quarter |-> r.Quarter, PlannedStart |-> r.PlannedStart,
   PlannedEnd |-> r.PlannedEnd, ActualStart |-> r.ActualStart,
   ActualEnd |-> r.ActualEnd, Status |-> r.Status, Revenue |-> r.Revenue,
   Effort |-> r.Effort, BreakEvenMonths |-> r.BreakEvenMonths,
   Module |-> r.Module, Completed |-> IsCompleted(r.Status),
   OnTime |-> IsOnTime(r)]

DeriveHelpers ==
  /\ pc = "derive"
  /\ stages' = Append(stages, "derive")
  /\ IF StrAccessorRaises(df.rows, "Status")
     THEN /\ Stop(Element("exception", "AttributeError", <<>>))
          /\ df' = df
     ELSE /\ df' = [columns |-> df.columns \cup {"Completed", "OnTime"},
                    rows |-> [i \in 1..Len(df.rows) |-> DerivedRow(df.rows[i])]]
          /\ pc' = "filters"
          /\ out' = out
  /\ UNCHANGED <<uploaded, track_f, cat_f, mod_f, qtr_f, status_f, fdf, opt, rerun>>

\* sorted(list of str): ascending, the k-th value having k - 1 below it.
sorted(S) ==
  [k \in 1..Cardinality(S) |->
     CHOOSE x \in S : Cardinality({y \in S : StrLess(y, x)}) = k - 1]

\* Options without dropna().
OptionsWithNaN(rows, column) == sorted({rows[i][column] : i \in 1..Len(rows)})

\* sorted(df[column].dropna().unique().tolist())
Options(rows, column) ==
  sorted({rows[i][column] : i \in 1..Len(rows)} \ {NaN})

FilterOptions(rows) ==
  [Track |-> Options(rows, "Track"), Category |-> Options(rows, "Category"),
   Module |-> Options(rows, "Module"), Quarter |-> Options(rows, "Quarter"),
   Status |-> Options(rows, "Status")]

\* What the five multiselects can return: in each, a subset of its options.
Selections(options) ==
  {s \in [Track : SUBSET Range(options.Track),
          Category : SUBSET Range(options.Category),
          Module : SUBSET Range(options.Module),
          Quarter : SUBSET Range(options.Quarter),
          Status : SUBSET Range(options.Status)] :
     Cardinality(s.Track) + Cardinality(s.Category) + Cardinality(s.Module)
       + Cardinality(s.Quarter) + Cardinality(s.Status) <= MaxSelected}

\* Series.isin(values)
isin(v, values) == v \in values

\* Mask with |= in place of &=: a row passes when one selector accepts it.
MaskAnySelector(r, t, c, m, q, s) ==
  \/ t = {} /\ c = {} /\ m = {} /\ q = {} /\ s = {}
  \/ t # {} /\ isin(r.Track, t)
  \/ c # {} /\ isin(r.Category, c)
  \/ m # {} /\ isin(r.Module, m)
  \/ q # {} /\ isin(r.Quarter, q)
  \/ s # {} /\ isin(r.Status, s)

\* mask = True; if track_f: mask &= df["Track"].isin(track_f); ...
Mask(r, t, c, m, q, s) ==
  /\ (t # {} => isin(r.Track, t))
  /\ (c # {} => isin(r.Category, c))
  /\ (m # {} => isin(r.Module, m))
  /\ (q # {} => isin(r.Quarter, q))
  /\ (s # {} => isin(r.Status, s))

\* fdf = df[mask].copy()
Filtered(rows, t, c, m, q, s) == SelectSeq(rows, LAMBDA r : Mask(r, t, c, m, q, s))

\* Filters with df = df[mask] in place of fdf = df[mask].copy().
FiltersInPlace ==
  /\ pc = "filters"
  /\ stages' = Append(stages, "filters")
  /\ \E sel \in Selections(FilterOptions(df.rows)) :
       /\ track_f' = sel.Track
       /\ cat_f' = sel.Category
       /\ mod_f' = sel.Module
       /\ qtr_f' = sel.Quarter
       /\ status_f' = sel.Status
       /\ fdf' = Filtered(df.rows, sel.Track, sel.Category, sel.Module,
                          sel.Quarter, sel.Status)
  /\ df' = [df EXCEPT !.rows = fdf']
  /\ out' = [out EXCEPT !.filters = <<FilterOptions(df.rows)>>]
  /\ pc' = "kpis"
  /\ UNCHANGED <<uploaded, opt, rerun>>

Filters ==
  /\ pc = "filters"
  /\ stages' = Append(stages, "filters")
  /\ \E sel \in Selections(FilterOptions(df.rows)) :
       /\ track_f' = sel.Track
       /\ cat_f' = sel.Category
       /\ mod_f' = sel.Module
       /\ qtr_f' = sel.Quarter
       /\ status_f' = sel.Status
       /\ fdf' = Filtered(df.rows, sel.Track, sel.Category, sel.Module,
                          sel.Quarter, sel.Status)
  /\ out' = [out EXCEPT !.filters = <<FilterOptions(df.rows)>>]
  /\ pc' = "kpis"
  /\ UNCHANGED <<uploaded, df, opt, rerun>>

(* ------------------------------- KPIs ---------------------------------- *)

\* Series.sum(): the sum of the cells that are not NaN (0 when there is none).
RECURSIVE SumCells(_, _)
SumCells(rows, column) ==
  IF rows = <<>> THEN 0
  ELSE (IF isna(Head(rows)[column]) THEN 0 ELSE Head(rows)[column][1])
       + SumCells(Tail(rows), column)

\* The number of cells of a column that are not NaN.
CountCells(rows, column) == Len(SelectSeq(rows, LAMBDA r : notna(r[column])))

\* The nearest integer to num / den, a tie going to the even one, as round()
\* and the .1f format do.
RoundHalfEven(num, den) ==
  LET q == num \div den
      r == num % den
  IN  IF 2 * r < den THEN q
      ELSE IF 2 * r > den THEN q + 1
      ELSE IF q % 2 = 0 THEN q ELSE q + 1

\* A st.metric: its label and the value shown, numbers with one decimal being
\* kept in tenths.
Metric(label, kind, a, b) == [label |-> label, kind |-> kind, a |-> a, b |-> b]

CountOnTime(rows) == Len(SelectSeq(rows, LAMBDA r : r.OnTime))

CountCompleted(rows) == Len(SelectSeq(rows, LAMBDA r : r.Completed))

\* OnTimeMetric with the completed rows as the denominator.
OnTimeOverCompleted(rows) ==
  IF CountCompleted(rows) > 0
  THEN Metric("On-Time Delivery %", "tenths",
              RoundHalfEven(1000 * CountOnTime(rows), CountCompleted(rows)), 0)
  ELSE Metric("On-Time Delivery %", "N/A", 0, 0)

\* ontime = round(100 * fdf["OnTime"].mean(), 1) if fdf["OnTime"].notna().any()
\* else None; shown as f"{ontime}%" or "N/A".  OnTime is a bool column, so
\* notna() is True on every row.
OnTimeMetric(rows) ==
  IF \E i \in 1..Len(rows) : rows[i].OnTime \in BOOLEAN
  THEN Metric("On-Time Delivery %", "tenths",
              RoundHalfEven(1000 * CountOnTime(rows), Len(rows)), 0)
  ELSE Metric("On-Time Delivery %", "N/A", 0, 0)

\* avg_breakeven = float(fdf["BreakEvenMonths"].mean()) if total else 0.0,
\* shown with one decimal if total else "N/A"; the mean of no value is nan.
BreakEvenMetric(rows) ==
  IF Len(rows) = 0 THEN Metric("Avg Break-Even (mo)", "N/A", 0, 0)
  ELSE IF CountCells(rows, "BreakEvenMonths") = 0
       THEN Metric("Avg Break-Even (mo)", "nan", 0, 0)
       ELSE Metric("Avg Break-Even (mo)", "tenths",
                   RoundHalfEven(10 * SumCells(rows, "BreakEvenMonths"),
                                 CountCells(rows, "BreakEvenMonths")), 0)

\* k1 .. k5
KpiMetrics(rows) ==
  LET total == Len(rows)
      completed == CountCompleted(rows)
      total_rev == IF total # 0 THEN SumCells(rows, "Revenue") ELSE 0
      total_effort == IF total # 0 THEN SumCells(rows, "Effort") ELSE 0
  IN  <<IF total # 0
        THEN Metric("Initiatives Completed / Total", "ratio", completed, total)
        ELSE Metric("Initiatives Completed / Total", "ratio", 0, 0),
        Metric("Total Revenue Opportunity", "tenths", 10 * total_rev, 0),
        OnTimeMetric(rows),
        Metric("Total Effort", "int", total_effort, 0),
        BreakEvenMetric(rows)>>

KPIs ==
  /\ pc = "kpis"
  /\ stages' = Append(stages, "kpis")
  /\ out' = [out EXCEPT !.kpis = KpiMetrics(fdf)]
  /\ pc' = "table"
  /\ UNCHANGED <<uploaded, df, track_f, cat_f, mod_f, qtr_f, status_f, fdf, opt, rerun>>

(* ------------------------------- table --------------------------------- *)

\* The order of sort_values on one text column: ascending, NaN last.
CellLess(a, b) == IF isna(a) THEN FALSE ELSE IF isna(b) THEN TRUE ELSE StrLess(a, b)

\* The order of sort_values(["Quarter", "Status", "Initiative"]).
RowLess(a, b) ==
  \/ CellLess(a.Quarter, b.Quarter)
  \/ /\ a.Quarter = b.Quarter
     /\ \/ CellLess(a.Status, b.Status)
        \/ a.Status = b.Status /\ CellLess(a.Initiative, b.Initiative)

\* A row put into a sorted frame after the rows that are not greater (stable).
RECURSIVE InsertRow(_, _)
InsertRow(r, rows) ==
  IF rows = <<>> THEN <<r>>
  ELSE IF RowLess(r, Head(rows)) THEN <<r>> \o rows
       ELSE <<Head(rows)>> \o InsertRow(r, Tail(rows))

RECURSIVE sort_values(_)
sort_values(rows) ==
  IF rows = <<>> THEN <<>>
  ELSE InsertRow(rows[Len(rows)], sort_values(SubSeq(rows, 1, Len(rows) - 1)))

Table ==
  /\ pc = "table"
  /\ stages' = Append(stages, "table")
  /\ out' = [out EXCEPT !.table = <<Element("dataframe", "Initiatives", sort_values(fdf))>>]
  /\ pc' = "charts1"
  /\ UNCHANGED <<uploaded, df, track_f, cat_f, mod_f, qtr_f, status_f, fdf, opt, rerun>>

(* ------------------------------- charts -------------------------------- *)

\* The order of the group keys (Quarter, Track).
PairLess(a, b) == StrLess(a[1], b[1]) \/ (a[1] = b[1] /\ StrLess(a[2], b[2]))

\* rev = fdf.groupby(["Quarter", "Track"], as_index=False)["Revenue"].sum():
\* one row per key in key order; rows with a NaN key are left out.
RevenueByQuarter(rows) ==
  LET keys == {<<rows[i].Quarter, rows[i].Track>> :
                 i \in {j \in 1..Len(rows) : notna(rows[j].Quarter) /\ notna(rows[j].Track)}}
      order == [k \in 1..Cardinality(keys) |->
                  CHOOSE x \in keys : Cardinality({y \in keys : PairLess(y, x)}) = k - 1]
  IN  [k \in 1..Len(order) |->
         [Quarter |-> order[k][1], Track |-> order[k][2],
          Revenue |-> SumCells(SelectSeq(rows, LAMBDA r : r.Quarter = order[k][1]
                                                      /\ r.Track = order[k][2]),
                               "Revenue")]]

\* str(timestamp.to_period("Q")), such as 2025Q3.
QKey(t) ==
  LET y == t \div 10000
      m == (t \div 100) % 100
  IN  <<DigitChar(y \div 1000), DigitChar((y \div 100) % 10),
        DigitChar((y \div 10) % 10), DigitChar(y % 10), "Q",
        DigitChar((m - 1) \div 3 + 1)>>

\* tmp = fdf.dropna(subset=["PlannedEnd"])
HasPlannedEnd(rows) == SelectSeq(rows, LAMBDA r : r.PlannedEnd # NaT)

\* trend = tmp.groupby("QKey")["OnTime"].mean(); OnTimePct = (mean * 100).round(1),
\* kept in tenths.
OnTimeTrend(tmp) ==
  LET order == sorted({QKey(tmp[i].PlannedEnd) : i \in 1..Len(tmp)})
  IN  [k \in 1..Len(order) |->
         LET grp == SelectSeq(tmp, LAMBDA r : QKey(r.PlannedEnd) = order[k])
         IN  [QKey |-> order[k],
              OnTimePct |-> RoundHalfEven(1000 * CountOnTime(grp), Len(grp))]]

\* comp = fdf[fdf["Completed"]].groupby("Category", as_index=False).size()
CompletedByCategory(rows) ==
  LET done == SelectSeq(rows, LAMBDA r : r.Completed)
      order == sorted({done[i].Category : i \in 1..Len(done)} \ {NaN})
  IN  [k \in 1..Len(order) |->
         [Category |-> order[k],
          size |-> Len(SelectSeq(done, LAMBDA r : r.Category = order[k]))]]

\* bub = fdf.dropna(subset=["Effort", "Revenue"])
Bubbles(rows) == SelectSeq(rows, LAMBDA r : notna(r.Effort) /\ notna(r.Revenue))

\* px.scatter(..., size="BreakEvenMonths") raises ValueError when a marker
\* size is NaN: the rows kept by dropna may still lack BreakEvenMonths.
ScatterRaises(bub) == \E i \in 1..Len(bub) : isna(bub[i].BreakEvenMonths)

\* One of st.plotly_chart(fig) and st.info(text), by whether there is data.
ChartOrInfo(title, data, text) ==
  IF data # <<>>
  THEN <<Element("plotly_chart", title, data)>>
  ELSE <<Element("info", text, <<>>)>>

ChartsRow1 ==
  /\ pc = "charts1"
  /\ stages' = Append(stages, "charts1")
  /\ out' = [out EXCEPT
       !.c1 = ChartOrInfo("Revenue Opportunity by Quarter (stacked)",
                          RevenueByQuarter(fdf),
                          "Revenue chart: no data after filters."),
       !.c2 = ChartOrInfo("On-Time Delivery Trend (%)",
                          OnTimeTrend(HasPlannedEnd(fdf)),
                          "On-time trend: need PlannedEnd dates.")]
  /\ pc' = "charts2"
  /\ UNCHANGED <<uploaded, df, track_f, cat_f, mod_f, qtr_f, status_f, fdf, opt, rerun>>

ChartsRow2 ==
  /\ pc = "charts2"
  /\ stages' = Append(stages, "charts2")
  /\ LET c3 == ChartOrInfo("Initiatives Completed by Category",
                           CompletedByCategory(fdf),
                           "Completed-by-Category chart: no completed items after filters.")
     IN  IF ScatterRaises(Bubbles(fdf))
         THEN /\ out' = [out EXCEPT !.c3 = c3,
                           !.c4 = <<Element("exception", "ValueError", <<>>)>>]
              /\ pc' = "stopped"
         ELSE /\ out' = [out EXCEPT !.c3 = c3,
                           !.c4 = ChartOrInfo("Effort vs Revenue (bubble = BreakEven months)",
                                              Bubbles(fdf),
                                              "Effort vs Revenue: need Effort & Revenue values.")]
              /\ pc' = "timeline"
  /\ UNCHANGED <<uploaded, df, track_f, cat_f, mod_f, qtr_f, status_f, fdf, opt, rerun>>

(* ------------------------------ timeline ------------------------------- *)

\* One bar of px.timeline(tl, x_start=..., x_end=..., y="Initiative", color="Status").
Bar(r, x_start, x_end) ==
  [y |-> r.Initiative, x_start |-> x_start, x_end |-> x_end, color |-> r.Status]

\* tl = fdf.dropna(subset=["PlannedStart", "PlannedEnd"]) and its bars.
PlannedBars(rows) ==
  LET tl == SelectSeq(rows, LAMBDA r : r.PlannedStart # NaT /\ r.PlannedEnd # NaT)
  IN  [i \in 1..Len(tl) |-> Bar(tl[i], tl[i].PlannedStart, tl[i].PlannedEnd)]

\* tl = fdf.dropna(subset=["ActualStart", "ActualEnd"]) and its bars.
ActualBars(rows) ==
  LET tl == SelectSeq(rows, LAMBDA r : r.ActualStart # NaT /\ r.ActualEnd # NaT)
  IN  [i \in 1..Len(tl) |-> Bar(tl[i], tl[i].ActualStart, tl[i].ActualEnd)]

\* opt = st.radio(...); the chart of the chosen dates, or a message.
TimelinePanel(rows, o) ==
  IF o = "Planned"
  THEN ChartOrInfo("Timeline", PlannedBars(rows),
                   "No Planned dates available for timeline.")
  ELSE ChartOrInfo("Timeline", ActualBars(rows),
                   "No Actual dates available for timeline.")

Timeline ==
  /\ pc = "timeline"
  /\ stages' = Append(stages, "timeline")
  /\ \E o \in {"Planned", "Actual"} :
       /\ opt' = o
       /\ out' = [out EXCEPT !.timeline = TimelinePanel(fdf, o)]
  /\ pc' = "done"
  /\ UNCHANGED <<uploaded, df, track_f, cat_f, mod_f, qtr_f, status_f, fdf, rerun>>

\* Streamlit runs the script again, from the top and with nothing kept, on
\* every interaction.
Rerun ==
  /\ pc \in {"done", "stopped"}
  /\ pc' = "upload"
  /\ uploaded' = None
  /\ df' = NoFrame
  /\ track_f' = {} /\ cat_f' = {} /\ mod_f' = {} /\ qtr_f' = {} /\ status_f' = {}
  /\ fdf' = <<>>
  /\ opt' = "Planned"
  /\ out' = NoOutput
  /\ stages' = <<>>
  /\ rerun' = TRUE

Next ==
  \/ FileUploader
  \/ ReadInput
  \/ ValidateColumns
  \/ ParseDates
  \/ DeriveHelpers
  \/ Filters
  \/ KPIs
  \/ Table
  \/ ChartsRow1
  \/ ChartsRow2
  \/ Timeline
  \/ Rerun

Spec == Init /\ [][Next]_vars

(* ------------------------------ properties ----------------------------- *)

\* The blocks of the script, top to bottom.
StageOrder ==
  <<"read", "validate", "parse", "derive", "filters", "kpis", "table",
    "charts1", "charts2", "timeline">>

Reached(stage) == \E i \in 1..Len(stages) : stages[i] = stage

\* Two characters that are one letter in either case.
SameLetter(x, y) ==
  \/ x = y
  \/ IsUpper(x) /\ Ord(y) = Ord(x) + (Ord("a") - Ord("A"))
  \/ IsUpper(y) /\ Ord(x) = Ord(y) + (Ord("a") - Ord("A"))

\* Two texts equal when letter case is ignored.
EqualIgnoringCase(a, b) ==
  /\ Len(a) = Len(b)
  /\ \A i \in 1..Len(a) : SameLetter(a[i], b[i])

\* No KPI, table, chart, timeline or filter selector is on the page.
NothingRendered ==
  /\ out.filters = <<>> /\ out.kpis = <<>> /\ out.table = <<>>
  /\ out.c1 = <<>> /\ out.c2 = <<>> /\ out.c3 = <<>> /\ out.c4 = <<>>
  /\ out.timeline = <<>>

\* The required columns the uploaded sheet does not have.
MissingColumns == Range(REQUIRED_COLUMNS) \ uploaded.columns

\* C1: schema validation is all-or-nothing.  Once a file that was read has
\* been validated: if a required column is absent, the run has stopped after
\* validation with one error that names exactly the absent required columns,
\* and nothing else is rendered; no later stage runs unless all 13 are
\* present; and with all 13 present validation does not stop the run.
C1_AllOrNothing ==
  /\ (Reached("validate") /\ MissingColumns # {}) =>
       /\ pc = "stopped"
       /\ stages = <<"read", "validate">>
       /\ Len(out.messages) = 1
       /\ out.messages[1].type = "error"
       /\ out.messages[1].text = "Your file is missing required columns"
       /\ Range(out.messages[1].data) = MissingColumns
       /\ NothingRendered
  /\ Reached("parse") => MissingColumns = {}
  /\ (stages = <<"read", "validate">> /\ MissingColumns = {}) =>
       pc = "parse" /\ out = NoOutput

\* A validated sheet lacks two required columns and has a column whose name
\* differs from a required one in case only; the run has stopped.
C1_Witness ==
  /\ pc = "stopped"
  /\ Reached("validate")
  /\ MissingColumns = {"Initiative", "Module"}
  /\ "initiative" \in uploaded.columns

\* A stage of the script is executed.
StageStep ==
  \/ ReadInput \/ ValidateColumns \/ ParseDates \/ DeriveHelpers \/ Filters
  \/ KPIs \/ Table \/ ChartsRow1 \/ ChartsRow2 \/ Timeline

\* C3: the stages run in the fixed order read, validate, parse, derive,
\* filters, KPIs, table, charts (two rows), timeline: what has been executed
\* is always an initial part of that order, the run is at the stage that
\* follows unless it has stopped, a stopped run can execute no further stage,
\* and what a stage renders is on the page only if the stage was executed.
C3_StageOrder ==
  /\ Len(stages) <= Len(StageOrder)
  /\ stages = SubSeq(StageOrder, 1, Len(stages))
  /\ pc \notin {"upload", "stopped", "done"} => pc = StageOrder[Len(stages) + 1]
  /\ pc = "done" <=> stages = StageOrder
  /\ pc = "stopped" => ~ENABLED StageStep
  /\ ~Reached("filters") => out.filters = <<>>
  /\ ~Reached("kpis") => out.kpis = <<>>
  /\ ~Reached("table") => out.table = <<>>
  /\ ~Reached("charts1") => out.c1 = <<>> /\ out.c2 = <<>>
  /\ ~Reached("charts2") => out.c3 = <<>> /\ out.c4 = <<>>
  /\ ~Reached("timeline") => out.timeline = <<>>

\* A run that executed every stage, and filtered rows out on the way.
C3_Witness ==
  /\ pc = "done"
  /\ stages = StageOrder
  /\ Len(fdf) < Len(df.rows)
  /\ out.timeline # <<>>

\* The file's name ends in .csv, whatever the case of its letters.
NamedCsv(f) ==
  /\ Len(f.name) >= Len(DotCsv)
  /\ EqualIgnoringCase(SubSeq(f.name, Len(f.name) - Len(DotCsv) + 1, Len(f.name)),
                       DotCsv)

\* The file cannot be parsed as what its name says it is.
Unreadable(f) == IF NamedCsv(f) THEN f.content # "csv" ELSE f.content # "xlsx"

\* C4: input failures end the run with a message and nothing else.  With no
\* file uploaded the run shows one informational prompt and stops before
\* reading; a file that cannot be parsed as CSV (name ending in .csv in any
\* case) or as XLSX (any other name) gives one 'Could not read file' error
\* and the run stops after the read; nothing else is rendered in either
\* case, and a file that can be parsed gives no such error.
C4_InputFailures ==
  /\ (pc # "upload" /\ uploaded = None) =>
       /\ pc = "stopped"
       /\ stages = <<>>
       /\ out = [NoOutput EXCEPT !.messages =
                   <<Element("info", "Upload a CSV/XLSX to continue", <<>>)>>]
  /\ (Reached("read") /\ Unreadable(uploaded)) =>
       /\ pc = "stopped"
       /\ stages = <<"read">>
       /\ out = [NoOutput EXCEPT !.messages =
                   <<Element("error", "Could not read file", <<>>)>>]
  /\ (Reached("read") /\ ~Unreadable(uploaded)) =>
       /\ \A i \in 1..Len(out.messages) : out.messages[i].text # "Could not read file"
       /\ Reached("validate") \/ pc = "validate"

\* A file named R.CSV whose bytes are a workbook: read as CSV, it fails.
C4_Witness ==
  /\ pc = "stopped"
  /\ uploaded.name = <<"R", ".", "C", "S", "V">>
  /\ uploaded.content = "xlsx"
  /\ Len(out.messages) = 1
  /\ out.messages[1].text = "Could not read file"

\* The derived columns were computed.
Derived == Reached("derive") /\ {"Completed", "OnTime"} \subseteq df.columns

\* What C2 says of the row read from `raw` and held as `r`.
FlagsAsSpecified(raw, r) ==
  /\ {"Completed", "OnTime"} \subseteq DOMAIN r
  /\ r.Completed = EqualIgnoringCase(raw.Status, completed_text)
  /\ r.OnTime = (/\ r.Completed
                 /\ IsIsoDate(raw.ActualEnd)
                 /\ IsIsoDate(raw.PlannedEnd)
                 /\ to_datetime(raw.ActualEnd) <= to_datetime(raw.PlannedEnd))

\* C2: once the derive stage has run on an accepted table, every row has
\* Completed true exactly when its Status is "completed" in any letter case,
\* and OnTime true exactly when it is Completed and ActualEnd <= PlannedEnd,
\* OnTime being false when either date is missing or no date.
C2_DerivedFlags ==
  Reached("derive") =>
    /\ Len(df.rows) = Len(uploaded.rows)
    /\ \A i \in 1..Len(df.rows) : FlagsAsSpecified(uploaded.rows[i], df.rows[i])

\* The part of C2 that holds: whenever the derived columns were computed,
\* every row's flags are as C2 says.
C2_FlagsWhenDerived ==
  Derived =>
    /\ Len(df.rows) = Len(uploaded.rows)
    /\ \A i \in 1..Len(df.rows) : FlagsAsSpecified(uploaded.rows[i], df.rows[i])

\* The derive stage ran on a sheet whose rows all have an empty Status, and
\* ended the run with an exception.
C2_RaisesOnEmptyStatus ==
  /\ Reached("derive")
  /\ ~Derived
  /\ pc = "stopped"
  /\ Len(uploaded.rows) > 0

\* The selection the user made in the selector of a dimension.
Selected(d) ==
  CASE d = "Track" -> track_f
    [] d = "Category" -> cat_f
    [] d = "Module" -> mod_f
    [] d = "Quarter" -> qtr_f
    [] d = "Status" -> status_f

Dimensions == {"Track", "Category", "Module", "Quarter", "Status"}

\* The row passes every selector that has a selection.
Passes(r) == \A d \in Dimensions : Selected(d) = {} \/ r[d] \in Selected(d)

\* The table as it is before the filters: the uploaded rows with their dates
\* parsed and the two flags added.
Prepared(rows) == [i \in 1..Len(rows) |-> DerivedRow(ParsedRow(rows[i]))]

\* C6: the filtered table holds, in the table's order and unchanged, exactly
\* the rows that pass every non-empty selector (AND across the five
\* dimensions, OR within one); with no selection at all it is the whole table.
C6_FilterSemantics ==
  Reached("filters") =>
    /\ fdf = SelectSeq(df.rows, Passes)
    /\ \A i \in 1..Len(fdf) : \E j \in 1..Len(df.rows) : fdf[i] = df.rows[j]
    /\ (\A d \in Dimensions : Selected(d) = {}) => fdf = df.rows

\* Selections in two dimensions that keep one row of two.
C6_Witness ==
  /\ Reached("filters")
  /\ track_f # {} /\ status_f # {}
  /\ Len(df.rows) = 2 /\ Len(fdf) = 1

\* The number of rows that satisfy OnTime, counted row by row.
NumOnTime(rows) == Cardinality({i \in 1..Len(rows) : rows[i].OnTime})

NumCompleted(rows) == Cardinality({i \in 1..Len(rows) : rows[i].Completed})

\* C7: the On-Time Delivery % metric is 'N/A' exactly when the filtered
\* table has no rows, and otherwise is the number, to one decimal, nearest to
\* 100 * (filtered rows with OnTime) / (all filtered rows).
C7_OnTimeKpi ==
  Reached("kpis") =>
    LET k3 == out.kpis[3]
    IN  /\ k3.label = "On-Time Delivery %"
        /\ k3.kind = "N/A" <=> Len(fdf) = 0
        /\ Len(fdf) > 0 =>
             /\ k3.kind = "tenths"
             /\ 2 * (k3.a * Len(fdf) - 1000 * NumOnTime(fdf)) <= Len(fdf)
             /\ 2 * (1000 * NumOnTime(fdf) - k3.a * Len(fdf)) <= Len(fdf)

\* One row completed on time and one not completed: 50.0 %, not 100.0 %.
C7_Witness ==
  /\ Reached("kpis")
  /\ Len(fdf) = 2
  /\ NumCompleted(fdf) = 1
  /\ NumOnTime(fdf) = 1
  /\ out.kpis[3].a = 500

\* C9: in a run that reached the KPIs, on-time rows <= completed rows (the
\* numerator shown) <= filtered rows (the denominator shown); and with an
\* empty filtered table the KPIs are 0/0, revenue 0.0, on-time N/A, effort 0
\* and break-even N/A, and no error was raised.
C9_KpiBounds ==
  Reached("kpis") =>
    /\ NumOnTime(fdf) <= NumCompleted(fdf)
    /\ NumCompleted(fdf) <= Len(fdf)
    /\ out.kpis[1].kind = "ratio"
    /\ out.kpis[1].a = NumCompleted(fdf)
    /\ out.kpis[1].b = Len(fdf)
    /\ Len(fdf) = 0 =>
         /\ out.kpis = <<Metric("Initiatives Completed / Total", "ratio", 0, 0),
                         Metric("Total Revenue Opportunity", "tenths", 0, 0),
                         Metric("On-Time Delivery %", "N/A", 0, 0),
                         Metric("Total Effort", "int", 0, 0),
                         Metric("Avg Break-Even (mo)", "N/A", 0, 0)>>
         /\ out.messages = <<>>
         /\ pc # "stopped"

\* The filters emptied a table of two rows, and the KPIs were drawn.
C9_Witness ==
  /\ Reached("kpis")
  /\ Len(df.rows) = 2
  /\ fdf = <<>>
  /\ out.kpis[1] = Metric("Initiatives Completed / Total", "ratio", 0, 0)

\* The distinct values of a column of the table that are not missing.
ValuesOf(d) == {df.rows[i][d] : i \in 1..Len(df.rows)} \ {NaN}

\* C10: each selector offers exactly the distinct non-missing values of its
\* column, so every selected value occurs in the table; a selection in
\* exactly one dimension therefore never empties the filtered table.  (That
\* selections in two dimensions can empty it is C10_Witness.)
C10_Options ==
  Reached("filters") =>
    /\ Len(out.filters) = 1
    /\ \A d \in Dimensions :
         /\ Range(out.filters[1][d]) = ValuesOf(d)
         /\ Len(out.filters[1][d]) = Cardinality(ValuesOf(d))
         /\ Selected(d) \subseteq ValuesOf(d)
    /\ Cardinality({d \in Dimensions : Selected(d) # {}}) = 1 => fdf # <<>>

\* Selections in two dimensions, each value occurring in the table, that no
\* row satisfies together.
C10_Witness ==
  /\ Reached("filters")
  /\ Cardinality({d \in Dimensions : Selected(d) # {}}) = 2
  /\ df.rows # <<>>
  /\ fdf = <<>>

\* The page a single run draws from a file, five selections and a timeline
\* option, top to bottom.
SingleRun(f, t, c, m, q, s, o) ==
  IF f = None
  THEN [NoOutput EXCEPT !.messages =
          <<Element("info", "Upload a CSV/XLSX to continue", <<>>)>>]
  ELSE IF ~Parses(f)
  THEN [NoOutput EXCEPT !.messages =
          <<Element("error", "Could not read file", <<>>)>>]
  ELSE IF Missing(f.columns) # <<>>
  THEN [NoOutput EXCEPT !.messages =
          <<Element("error", "Your file is missing required columns",
                    Missing(f.columns))>>]
  ELSE IF StrAccessorRaises(f.rows, "Status")
  THEN [NoOutput EXCEPT !.messages = <<Element("exception", "AttributeError", <<>>)>>]
  ELSE
    LET table == Prepared(f.rows)
        kept == Filtered(table, t, c, m, q, s)
        upper == [NoOutput EXCEPT
                    !.filters = <<FilterOptions(table)>>,
                    !.kpis = KpiMetrics(kept),
                    !.table = <<Element("dataframe", "Initiatives", sort_values(kept))>>,
                    !.c1 = ChartOrInfo("Revenue Opportunity by Quarter (stacked)",
                                       RevenueByQuarter(kept),
                                       "Revenue chart: no data after filters."),
                    !.c2 = ChartOrInfo("On-Time Delivery Trend (%)",
                                       OnTimeTrend(HasPlannedEnd(kept)),
                                       "On-time trend: need PlannedEnd dates."),
                    !.c3 = ChartOrInfo("Initiatives Completed by Category",
                                       CompletedByCategory(kept),
                                       "Completed-by-Category chart: no completed items after filters.")]
    IN  IF ScatterRaises(Bubbles(kept))
        THEN [upper EXCEPT !.c4 = <<Element("exception", "ValueError", <<>>)>>]
        ELSE [upper EXCEPT
                !.c4 = ChartOrInfo("Effort vs Revenue (bubble = BreakEven months)",
                                   Bubbles(kept),
                                   "Effort vs Revenue: need Effort & Revenue values."),
                !.timeline = TimelinePanel(kept, o)]

\* A step inside a run, after the derived columns were computed, leaves the
\* unfiltered table as it is; a step after the filters leaves the filtered
\* table and the selections as they are; no step inside a run changes the
\* uploaded file.
FrameStep ==
  /\ (pc # "upload" /\ pc' # "upload") => uploaded' = uploaded
  /\ (pc \in {"filters", "kpis", "table", "charts1", "charts2", "timeline"}
        /\ pc' # "upload") => df' = df
  /\ (pc \in {"kpis", "table", "charts1", "charts2", "timeline"}
        /\ pc' # "upload") =>
       /\ fdf' = fdf
       /\ <<track_f', cat_f', mod_f', qtr_f', status_f'>>
            = <<track_f, cat_f, mod_f, qtr_f, status_f>>

\* C5: nothing is carried from run to run and the uploaded data is never
\* changed.  When a run has ended, whether or not runs came before it, the
\* page is the page of a single run on the file, selections and timeline
\* option of this run; a run starts from nothing; and applying the filters,
\* like every later step, leaves the unfiltered table unchanged.
C5_NoCarriedState ==
  /\ [](pc \in {"done", "stopped"} =>
          out = SingleRun(uploaded, track_f, cat_f, mod_f, qtr_f, status_f, opt))
  /\ [](pc = "upload" =>
          /\ out = NoOutput
          /\ df = NoFrame
          /\ fdf = <<>>
          /\ track_f = {} /\ cat_f = {} /\ mod_f = {} /\ qtr_f = {} /\ status_f = {})
  /\ [][FrameStep]_vars

\* A run that followed an earlier one, ran to its end and filtered rows out.
C5_Witness ==
  /\ rerun
  /\ pc = "done"
  /\ Len(uploaded.rows) = 2
  /\ Len(fdf) = 1
  /\ opt = "Actual"

\* A panel shows one element, a chart or a message, and the chart exactly
\* when there is data for it.
PanelShows(panel, hasData) ==
  /\ Len(panel) = 1
  /\ panel[1].type \in {"plotly_chart", "info"}
  /\ panel[1].type = "plotly_chart" <=> hasData

\* What C8 says of the two panels of the first row of charts.
Row1Panels ==
  /\ PanelShows(out.c1, \E i \in 1..Len(fdf) :
                          notna(fdf[i].Quarter) /\ notna(fdf[i].Track))
  /\ PanelShows(out.c2, \E i \in 1..Len(fdf) : fdf[i].PlannedEnd # NaT)

\* What C8 says of the completed-by-category panel.
CategoryPanel ==
  PanelShows(out.c3, \E i \in 1..Len(fdf) :
                       fdf[i].Completed /\ notna(fdf[i].Category))

\* What C8 says of the effort-vs-revenue panel.
BubblePanel ==
  PanelShows(out.c4, \E i \in 1..Len(fdf) :
                       notna(fdf[i].Effort) /\ notna(fdf[i].Revenue))

\* What C8 says of the timeline: the chart when a row has both dates of the
\* chosen option, drawn from those dates and not from the other option's.
TimelinePanelAsSpecified ==
  /\ opt = "Planned" =>
       /\ PanelShows(out.timeline, \E i \in 1..Len(fdf) :
                       fdf[i].PlannedStart # NaT /\ fdf[i].PlannedEnd # NaT)
       /\ out.timeline[1].type = "plotly_chart" =>
            \A k \in 1..Len(out.timeline[1].data) :
              \E i \in 1..Len(fdf) :
                /\ out.timeline[1].data[k].x_start = fdf[i].PlannedStart
                /\ out.timeline[1].data[k].x_end = fdf[i].PlannedEnd
  /\ opt = "Actual" =>
       /\ PanelShows(out.timeline, \E i \in 1..Len(fdf) :
                       fdf[i].ActualStart # NaT /\ fdf[i].ActualEnd # NaT)
       /\ out.timeline[1].type = "plotly_chart" =>
            \A k \in 1..Len(out.timeline[1].data) :
              \E i \in 1..Len(fdf) :
                /\ out.timeline[1].data[k].x_start = fdf[i].ActualStart
                /\ out.timeline[1].data[k].x_end = fdf[i].ActualEnd

\* C8: each of the five panels, once its block has run, shows exactly one of
\* a chart and a message, the chart exactly when its input rows are not
\* empty; and a run that drew the KPIs draws all five panels.
C8_Panels ==
  /\ Reached("charts1") => Row1Panels
  /\ Reached("charts2") => CategoryPanel /\ BubblePanel
  /\ Reached("timeline") => TimelinePanelAsSpecified
  /\ (Reached("kpis") /\ pc \in {"done", "stopped"}) => pc = "done"

\* The part of C8 that holds: four of the five panels are as C8 says, and
\* so is the effort-vs-revenue panel unless px.scatter raised.
C8_PanelsUnlessScatterRaises ==
  /\ Reached("charts1") => Row1Panels
  /\ Reached("charts2") =>
       /\ CategoryPanel
       /\ BubblePanel \/ (ScatterRaises(Bubbles(fdf)) /\ pc = "stopped")
  /\ Reached("timeline") => TimelinePanelAsSpecified

\* The effort-vs-revenue panel holds an exception and the timeline nothing:
\* a filtered row has Effort and Revenue but no BreakEvenMonths.
C8_ScatterRaised ==
  /\ Reached("charts2")
  /\ pc = "stopped"
  /\ out.c4[1].type = "exception"
  /\ out.timeline = <<>>

====
